---- MODULE Spec2Model ----
(***************************************************************************)
(* Rummikub placement engine: Piece, Play, Board and BoardSolver.          *)
(*                                                                         *)
(* Objects are modelled by value.  Where the program relies on object      *)
(* identity the model keeps the identity explicitly:                       *)
(*   - every Board carries the id it got when Board() constructed it;      *)
(*   - play_valid_cache is a Python dict whose keys are (Play, flag)       *)
(*     tuples holding live Play objects.  An entry remembers the tile      *)
(*     list the key hashed to when it was stored (hpieces) and the tile    *)
(*     list the key object holds now (kpieces); a lookup finds an entry    *)
(*     only if the stored hash matches and the key compares equal.         *)
(*     hash() is taken to be injective on tile lists.                      *)
(***************************************************************************)
EXTENDS Integers, Sequences, FiniteSets, TLC

(***************************************************************************)
(* Bounds of the model.                                                    *)
(***************************************************************************)
\* longest tile list a client passes to solve, insert or Play(...)
MaxLen == 3
\* number of client calls in one behaviour
MaxCalls == 2
\* largest number of valid groups a tile list of SpecCold is made of
MaxGroups == 2

(***************************************************************************)
(* piece.py                                                                *)
(***************************************************************************)
colors == <<"red", "blue", "yellow", "black">>

max_number == 13

Piece(color, number) == [color |-> color, number |-> number]

\* the tiles the clients of the model use: the runs within red 1..4, the
\* set of 1s, and the two colours that share an initial letter
Pool ==
    { Piece("red", 1), Piece("red", 2), Piece("red", 3), Piece("red", 4),
      Piece("blue", 1), Piece("black", 1) }

\* code point of color[0], the only part of the colour __lt__ looks at
ColorInitial(color) ==
    CASE color = "red" -> 114
      [] color = "blue" -> 98
      [] color = "yellow" -> 121
      [] color = "black" -> 98

Piece_eq(a, b) == a.color = b.color /\ a.number = b.number

Piece_lt(a, b) ==
    \/ ColorInitial(a.color) < ColorInitial(b.color)
    \/ /\ ColorInitial(a.color) = ColorInitial(b.color)
       /\ a.number < b.number

(***************************************************************************)
(* Statements in sequence.  "name = value" followed by the statements that *)
(* use name is With(value, LAMBDA name : ...): value is computed once.     *)
(***************************************************************************)
With(value, Rest(_)) == Rest(value)

(***************************************************************************)
(* list.sort(): stable, uses only <.                                       *)
(***************************************************************************)
\* list.sort() on a list of Pieces
InsertPiece(s, x) ==
    LET k == Cardinality({i \in 1..Len(s) : ~Piece_lt(x, s[i])})
    IN  SubSeq(s, 1, k) \o <<x>> \o SubSeq(s, k + 1, Len(s))

RECURSIVE sort(_)
sort(pieces) ==
    IF pieces = <<>> THEN <<>>
    ELSE InsertPiece(sort(SubSeq(pieces, 1, Len(pieces) - 1)), pieces[Len(pieces)])

\* list.sort() on a list of ints
InsertNumber(s, x) ==
    LET k == Cardinality({i \in 1..Len(s) : ~(x < s[i])})
    IN  SubSeq(s, 1, k) \o <<x>> \o SubSeq(s, k + 1, Len(s))

RECURSIVE sort_numbers(_)
sort_numbers(numbers) ==
    IF numbers = <<>> THEN <<>>
    ELSE InsertNumber(sort_numbers(SubSeq(numbers, 1, Len(numbers) - 1)),
                      numbers[Len(numbers)])

\* remove as a filter would do it: every element equal to x is dropped
RECURSIVE remove_every(_, _)
remove_every(s, x) ==
    IF s = <<>> THEN <<>>
    ELSE IF Piece_eq(s[1], x) THEN remove_every(Tail(s), x)
    ELSE <<s[1]>> \o remove_every(Tail(s), x)

\* remove if it left the list as it was
remove_nothing(s, x) == s

\* list.remove(x): drops the first element equal to x
RECURSIVE remove(_, _)
remove(s, x) ==
    IF s = <<>> THEN <<>>
    ELSE IF Piece_eq(s[1], x) THEN Tail(s)
    ELSE <<s[1]>> \o remove(Tail(s), x)

(***************************************************************************)
(* play.py                                                                 *)
(***************************************************************************)
None == <<>>

Some(v) == <<v>>

\* Play.__init__ ; key_of lists the (hpieces, flag) pairs under which this
\* very object is a key of play_valid_cache
Play(pieces) == [pieces |-> sort(pieces), _is_valid |-> None, key_of |-> {}]

\* Play.__hash__: hash(tuple(self.pieces)), taken to be injective
Play_hash(play) == play.pieces

Play_eq(a, b) == a.pieces = b.pieces

Play_copy(play) == Play(play.pieces)

\* is_valid_straight if it asked for 3 pieces whatever allow_partial says
is_valid_straight_always_three(pieces, allow_partial) ==
    IF Len(pieces) < 3 THEN FALSE
    ELSE IF ~(\A i \in 1..Len(pieces) : pieces[i].color = pieces[1].color)
    THEN FALSE
    ELSE With(sort_numbers([i \in 1..Len(pieces) |-> pieces[i].number]),
              LAMBDA numbers :
                  \A i \in 1..Len(numbers) : numbers[i] = numbers[1] + (i - 1))

is_valid_straight(pieces, allow_partial) ==
    IF ~allow_partial /\ Len(pieces) < 3 THEN FALSE
    ELSE IF ~(\A i \in 1..Len(pieces) : pieces[i].color = pieces[1].color)
    THEN FALSE
    ELSE With(sort_numbers([i \in 1..Len(pieces) |-> pieces[i].number]),
              LAMBDA numbers :
                  \A i \in 1..Len(numbers) : numbers[i] = numbers[1] + (i - 1))

\* is_valid_collection without the "all different colors" check
is_valid_collection_any_colors(pieces, allow_partial) ==
    IF ~allow_partial /\ Len(pieces) < 3 THEN FALSE
    ELSE \A i \in 1..Len(pieces) : pieces[i].number = pieces[1].number

is_valid_collection(pieces, allow_partial) ==
    IF ~allow_partial /\ Len(pieces) < 3 THEN FALSE
    ELSE IF ~(\A i \in 1..Len(pieces) : pieces[i].number = pieces[1].number)
    THEN FALSE
    ELSE Len(pieces) = Cardinality({pieces[i].color : i \in 1..Len(pieces)})

\* is_valid_straight evaluates numbers[0] of an empty list
RaisesIndexError(pieces, allow_partial) == allow_partial /\ pieces = <<>>

\* the lookup if the key were the play alone
CacheFind_ignoring_flag(cache, pieces, allow_partial) ==
    {e \in cache : e.hpieces = pieces /\ e.kpieces = pieces}

\* dict lookup with key (play, allow_partial)
CacheFind(cache, pieces, allow_partial) ==
    {e \in cache : /\ e.hpieces = pieces
                   /\ e.kpieces = pieces
                   /\ e.flag = allow_partial}

CacheEntry(pieces, allow_partial, value) ==
    [hpieces |-> pieces, kpieces |-> pieces, flag |-> allow_partial,
     value |-> value]

\* Play.is_valid: the value returned, the Play afterwards and the caches.
\* env is [play_valid_cache, cache_hits, next_id].
Play_is_valid(play, allow_partial, env) ==
    IF play._is_valid # None
    THEN [rval |-> play._is_valid[1], play |-> play, env |-> env]
    ELSE With(CacheFind(env.play_valid_cache, play.pieces, allow_partial),
              LAMBDA hit :
         IF hit # {}
         THEN With((CHOOSE e \in hit : TRUE).value, LAMBDA rval :
                  [rval |-> rval,
                   play |-> [play EXCEPT !._is_valid = Some(rval)],
                   env |-> [env EXCEPT !.cache_hits = @ + 1]])
         ELSE With(\/ is_valid_straight(play.pieces, allow_partial)
                   \/ is_valid_collection(play.pieces, allow_partial),
                   LAMBDA rval :
                  [rval |-> rval,
                   play |-> [play EXCEPT
                               !._is_valid = Some(rval),
                               !.key_of = @ \cup {<<play.pieces, allow_partial>>}],
                   env |-> [env EXCEPT !.play_valid_cache =
                              @ \cup {CacheEntry(play.pieces, allow_partial, rval)}]]))

\* add_piece if the dict filed the entries of this object under the hash of
\* the longer list
Play_add_piece_rehashing(play, piece, env) ==
    [play |-> [play EXCEPT !.pieces = sort(Append(play.pieces, piece)),
                           !._is_valid = None],
     env |-> [env EXCEPT !.play_valid_cache =
                {IF <<e.hpieces, e.flag>> \in play.key_of /\ e.kpieces = play.pieces
                 THEN [e EXCEPT !.kpieces = sort(Append(play.pieces, piece)),
                                !.hpieces = sort(Append(play.pieces, piece))]
                 ELSE e : e \in @}]]

\* Play.add_piece: append, sort, forget the memo.  The entries of
\* play_valid_cache whose key is this object now hold the longer list.
Play_add_piece(play, piece, env) ==
    LET mine(e) == /\ <<e.hpieces, e.flag>> \in play.key_of
                   /\ e.kpieces = play.pieces
    IN  With(sort(Append(play.pieces, piece)), LAMBDA pieces :
            [play |-> [play EXCEPT !.pieces = pieces, !._is_valid = None],
             env |-> [env EXCEPT !.play_valid_cache =
                        {IF mine(e) THEN [e EXCEPT !.kpieces = pieces] ELSE e
                            : e \in @}]])

\* can_add_piece if it let every piece onto every play
Play_can_add_piece_anywhere(play, piece, allow_partial, env) ==
    [rval |-> TRUE, env |-> env, self |-> play]

\* can_add_piece if it appended to the Play itself, not to a copy
Play_can_add_piece_in_place(play, piece, allow_partial, env) ==
    With(Play_add_piece(play, piece, env), LAMBDA added :
    With(Play_is_valid(added.play, allow_partial, added.env), LAMBDA valid :
        [rval |-> valid.rval, env |-> valid.env, self |-> valid.play]))

\* can_add_piece if it asked for a whole run or set whatever allow_partial is
Play_can_add_piece_strictly(play, piece, allow_partial, env) ==
    With(Play_add_piece(Play_copy(play), piece, env), LAMBDA added :
    With(Play_is_valid(added.play, FALSE, added.env), LAMBDA valid :
        [rval |-> valid.rval, env |-> valid.env, self |-> play]))

\* Play.can_add_piece: self.copy().add_piece(piece).is_valid(allow_partial).
\* self is the Play it was called on, afterwards.
Play_can_add_piece(play, piece, allow_partial, env) ==
    With(Play_add_piece(Play_copy(play), piece, env), LAMBDA added :
    With(Play_is_valid(added.play, allow_partial, added.env), LAMBDA valid :
        [rval |-> valid.rval, env |-> valid.env, self |-> play]))

(***************************************************************************)
(* board.py: Board                                                         *)
(***************************************************************************)
\* Board.__init__: a new object, so a new id
Board(env) ==
    [board |-> [id |-> env.next_id, plays |-> <<>>, pieces |-> <<>>,
                num_patial_plays |-> 0],
     env |-> [env EXCEPT !.next_id = @ + 1]]

\* what __eq__ and __hash__ look at: the plays, each by its tile list
BoardKey(board) == [i \in 1..Len(board.plays) |-> board.plays[i].pieces]

Board_eq(a, b) == BoardKey(a) = BoardKey(b)

\* copy if it took the Play objects over: new_board.plays = self.plays[:]
Board_copy_sharing_plays(board, env) ==
    With(Board(env), LAMBDA new_board :
        [board |-> [new_board.board EXCEPT
                      !.plays = board.plays,
                      !.num_patial_plays = board.num_patial_plays,
                      !.pieces = board.pieces],
         env |-> new_board.env,
         same_plays |-> 1..Len(board.plays)])

\* Board.copy.  same_plays: the places of new_board.plays that hold the
\* Play object self.plays holds there; play.copy() makes a Play of its own
\* for every place.
Board_copy(board, env) ==
    With(Board(env), LAMBDA new_board :
        [board |-> [new_board.board EXCEPT
                      !.plays = [i \in 1..Len(board.plays) |-> Play_copy(board.plays[i])],
                      !.num_patial_plays = board.num_patial_plays,
                      !.pieces = board.pieces],
         env |-> new_board.env,
         same_plays |-> {}])

\* Board.add_piece; play_index counts from 1.  raised tells whether
\* RuntimeError("This function shouldn't make a new play partial") left it.
Board_add_piece(board, piece, play_index, env) ==
    With(Play_is_valid(board.plays[play_index], FALSE, env), LAMBDA was_valid :
    With(Play_add_piece(was_valid.play, piece, was_valid.env), LAMBDA added :
    With(Play_is_valid(added.play, FALSE, added.env), LAMBDA is_valid :
        [board |-> [board EXCEPT
                      !.plays[play_index] = is_valid.play,
                      !.pieces = Append(@, piece),
                      !.num_patial_plays =
                          IF ~was_valid.rval /\ is_valid.rval THEN @ - 1 ELSE @],
         env |-> is_valid.env,
         raised |-> was_valid.rval /\ ~is_valid.rval])))

Board_add_play(board, play, env) ==
    With(Play_is_valid(play, FALSE, env), LAMBDA valid :
        [board |-> [board EXCEPT
                      !.plays = Append(@, valid.play),
                      !.num_patial_plays = IF ~valid.rval THEN @ + 1 ELSE @,
                      !.pieces = @ \o play.pieces],
         env |-> valid.env])

\* Board.get_neighbors driving Board.get_places_for_piece, both generators:
\* play i is asked can_add_piece, and if it can, the copy is made and
\* extended before play i + 1 is asked.  acc is [boards, env, raised, self,
\* same_plays]: self is the Board it was called on, as it is by now, and
\* same_plays the places, <<Board id, index>>, of the Boards yielded that
\* hold a Play object of self.
RECURSIVE get_neighbors(_, _, _, _, _)
get_neighbors(board, piece, allow_partial, i, acc) ==
    IF i > Len(board.plays) \/ acc.raised THEN acc
    ELSE get_neighbors(board, piece, allow_partial, i + 1,
            With(Play_can_add_piece(acc.self.plays[i], piece, allow_partial, acc.env),
                 LAMBDA can :
            With([acc.self EXCEPT !.plays[i] = can.self], LAMBDA self :
            IF ~can.rval
            THEN [acc EXCEPT !.env = can.env, !.self = self]
            ELSE With(Board_copy(self, can.env), LAMBDA new_board :
                 With(Board_add_piece(new_board.board, piece, i, new_board.env),
                      LAMBDA added :
                     [boards |-> IF added.raised THEN acc.boards
                                 ELSE Append(acc.boards, added.board),
                      env |-> added.env,
                      raised |-> added.raised,
                      self |-> IF i \in new_board.same_plays
                               THEN [self EXCEPT !.plays[i] = added.board.plays[i]]
                               ELSE self,
                      same_plays |-> acc.same_plays \cup
                          {<<added.board.id, j>> : j \in new_board.same_plays}])))))

Board_is_valid(board) == board.num_patial_plays = 0

(***************************************************************************)
(* board.py: BoardSolver                                                   *)
(***************************************************************************)
\* BoardSolver.insert builds this list and hands it to solve
flatten(board, pieces) ==
    LET RECURSIVE cat(_)
        cat(i) == IF i > Len(board.plays) THEN <<>>
                  ELSE board.plays[i].pieces \o cat(i + 1)
    IN  cat(1) \o pieces

\* the check if two colours of a number were enough
_is_board_fesable_with_two_colors(pieces) ==
    LET numbers_by_color(color, number) ==
            \E i \in 1..Len(pieces) :
                pieces[i].color = color /\ pieces[i].number = number
        straight_fesable(piece) ==
            \/ piece.number # 1 /\ numbers_by_color(piece.color, piece.number - 1)
            \/ /\ piece.number # max_number
               /\ numbers_by_color(piece.color, piece.number + 1)
        combination_fesable(piece) ==
            Cardinality({c \in 1..Len(colors) :
                            numbers_by_color(colors[c], piece.number)}) >= 2
    IN  \A i \in 1..Len(pieces) :
            straight_fesable(pieces[i]) \/ combination_fesable(pieces[i])

\* the check if it looked for the number below only
_is_board_fesable_looking_below(pieces) ==
    LET numbers_by_color(color, number) ==
            \E i \in 1..Len(pieces) :
                pieces[i].color = color /\ pieces[i].number = number
        straight_fesable(piece) ==
            piece.number # 1 /\ numbers_by_color(piece.color, piece.number - 1)
        combination_fesable(piece) ==
            Cardinality({c \in 1..Len(colors) :
                            numbers_by_color(colors[c], piece.number)}) >= 3
    IN  \A i \in 1..Len(pieces) :
            straight_fesable(pieces[i]) \/ combination_fesable(pieces[i])

\* BoardSolver._is_board_fesable
_is_board_fesable(pieces) ==
    LET numbers_by_color(color, number) ==
            \E i \in 1..Len(pieces) :
                pieces[i].color = color /\ pieces[i].number = number
        straight_fesable(piece) ==
            \/ piece.number # 1 /\ numbers_by_color(piece.color, piece.number - 1)
            \/ /\ piece.number # max_number
               /\ numbers_by_color(piece.color, piece.number + 1)
        combination_fesable(piece) ==
            Cardinality({c \in 1..Len(colors) :
                            numbers_by_color(colors[c], piece.number)}) >= 3
    IN  \A i \in 1..Len(pieces) :
            straight_fesable(pieces[i]) \/ combination_fesable(pieces[i])

SearchNode(board, pieces, parent, incomplete_depth) ==
    [board |-> board, pieces |-> pieces, parent |-> parent,
     incomplete_depth |-> incomplete_depth]

\* the check if it let no partial play through
too_many_partial_none_allowed(neighbor) == neighbor.num_patial_plays >= 1

\* the check if it let a second partial play through
too_many_partial_two_allowed(neighbor) == neighbor.num_patial_plays > 2

\* "if neighbor.num_patial_plays > 1": the Board is not explored
too_many_partial(neighbor) == neighbor.num_patial_plays > 1

\* the check if it stopped at the second incomplete step
too_deep_at_two(incomplete_depth) == incomplete_depth >= 2

\* the check if it let a third incomplete step through
too_deep_at_four(incomplete_depth) == incomplete_depth >= 4

\* "if incomplete_depth >= 3": the Board is not explored
too_deep(incomplete_depth) == incomplete_depth >= 3

\* the loop if it did not look the neighbor up in explored
RECURSIVE visit_not_checking_explored(_, _, _, _, _)
visit_not_checking_explored(node, other_pieces, search_space, k, S) ==
    IF k > Len(search_space) THEN S
    ELSE LET neighbor == search_space[k]
             incomplete_depth ==
                 IF Board_is_valid(neighbor) THEN 0 ELSE node.incomplete_depth + 1
         IN  visit_not_checking_explored(node, other_pieces, search_space, k + 1,
                IF too_many_partial(neighbor)
                THEN [S EXCEPT !.partial_plays_skipped = @ + 1]
                ELSE IF too_deep(incomplete_depth)
                THEN [S EXCEPT !.explored = @ \cup {BoardKey(neighbor)},
                               !.incomplete_depth_skipped = @ + 1]
                ELSE [S EXCEPT !.explored = @ \cup {BoardKey(neighbor)},
                               !.queue = Append(@, SearchNode(neighbor, other_pieces,
                                                   Some(node.board.id),
                                                   incomplete_depth))])

\* the body of "for neighbor in search_space", from neighbor k on.
\* S is [queue, explored, env, node_cache_hits, partial_plays_skipped,
\*       incomplete_depth_skipped, raised].
RECURSIVE visit(_, _, _, _, _)
visit(node, other_pieces, search_space, k, S) ==
    IF k > Len(search_space) THEN S
    ELSE LET neighbor == search_space[k]
             incomplete_depth ==
                 IF Board_is_valid(neighbor) THEN 0 ELSE node.incomplete_depth + 1
         IN  visit(node, other_pieces, search_space, k + 1,
                IF BoardKey(neighbor) \in S.explored
                THEN [S EXCEPT !.node_cache_hits = @ + 1]
                ELSE IF too_many_partial(neighbor)
                THEN [S EXCEPT !.partial_plays_skipped = @ + 1]
                ELSE IF too_deep(incomplete_depth)
                THEN [S EXCEPT !.explored = @ \cup {BoardKey(neighbor)},
                               !.incomplete_depth_skipped = @ + 1]
                ELSE [S EXCEPT !.explored = @ \cup {BoardKey(neighbor)},
                               !.queue = Append(@, SearchNode(neighbor, other_pieces,
                                                   Some(node.board.id),
                                                   incomplete_depth))])

\* "if not search_space": the piece starts a play of its own on a copy
new_play(board, piece, env) ==
    With(Board_copy(board, env), LAMBDA copied :
    With(Board_add_play(copied.board, Play(<<piece>>), copied.env), LAMBDA started :
        [search_space |-> <<started.board>>, env |-> started.env]))

\* the body of "for piece in pieces", from piece j on
RECURSIVE expand(_, _, _)
expand(node, j, S) ==
    IF j > Len(node.pieces) \/ S.raised THEN S
    ELSE expand(node, j + 1,
            With(node.pieces[j], LAMBDA piece :
            With(get_neighbors(node.board, piece, TRUE, 1,
                     [boards |-> <<>>, env |-> S.env, raised |-> FALSE,
                      self |-> node.board, same_plays |-> {}]),
                 LAMBDA found :
            IF found.raised
            THEN [S EXCEPT !.raised = TRUE, !.env = found.env]
            ELSE With(IF found.boards # <<>>
                      THEN [search_space |-> found.boards, env |-> found.env]
                      ELSE new_play(node.board, piece, found.env),
                      LAMBDA places :
                 visit(node, remove(node.pieces, piece), places.search_space, 1,
                       [S EXCEPT !.env = places.env])))))

(***************************************************************************)
(* The state.  The class attributes of Play and BoardSolver, the Boards    *)
(* that outlive a call (heap: id -> Board), the locals of the solve call   *)
(* in progress, and what the client of the engine has seen so far.         *)
(***************************************************************************)
VARIABLES
    play_valid_cache,           \* Play.play_valid_cache
    cache_hits,                 \* Play.cache_hits
    solver_cache,               \* BoardSolver.solver_cache: key -> None | Some(id)
    nodes_explored, board_cache_hits, node_cache_hits, partial_plays_skipped,
    incomplete_depth_skipped, infesable_board_skipped, boards_explored,
    next_id,                    \* the id the next Board() gets
    heap,                       \* the Boards the client or solver_cache refers to
    pc,                         \* "idle", or "search" inside solve's while loop
    solver_cache_key, queue, explored,   \* locals of solve
    outcome, returned,          \* how the last call ended, and the Board it returned
    play, rval,                 \* the client's Play and what is_valid last returned
    calls, call, history,       \* the client's calls: count, current, finished
    hand, draw_pile,            \* the client's Hand and DrawPile
    shared_plays                \* the places in Boards' plays that hold one Play object

solver_vars ==
    <<play_valid_cache, cache_hits, solver_cache, nodes_explored, board_cache_hits,
      node_cache_hits, partial_plays_skipped, incomplete_depth_skipped,
      infesable_board_skipped, boards_explored, next_id, heap, pc,
      solver_cache_key, queue, explored, outcome, returned>>

vars ==
    <<solver_vars, play, rval, calls, call, history, hand, draw_pile, shared_plays>>

\* the engine's state as one value, for the operators below
State ==
    [env |-> [play_valid_cache |-> play_valid_cache, cache_hits |-> cache_hits,
              next_id |-> next_id],
     solver_cache |-> solver_cache, nodes_explored |-> nodes_explored,
     board_cache_hits |-> board_cache_hits, node_cache_hits |-> node_cache_hits,
     partial_plays_skipped |-> partial_plays_skipped,
     incomplete_depth_skipped |-> incomplete_depth_skipped,
     infesable_board_skipped |-> infesable_board_skipped,
     boards_explored |-> boards_explored, heap |-> heap, pc |-> pc,
     solver_cache_key |-> solver_cache_key, queue |-> queue,
     explored |-> explored, outcome |-> outcome, returned |-> returned]

\* both caches empty, no call made
ColdState ==
    [env |-> [play_valid_cache |-> {}, cache_hits |-> 0, next_id |-> 1],
     solver_cache |-> <<>>, nodes_explored |-> 0, board_cache_hits |-> 0,
     node_cache_hits |-> 0, partial_plays_skipped |-> 0,
     incomplete_depth_skipped |-> 0, infesable_board_skipped |-> 0,
     boards_explored |-> 0, heap |-> <<>>, pc |-> "idle",
     solver_cache_key |-> <<>>, queue |-> <<>>, explored |-> {},
     outcome |-> "none", returned |-> None]

Install(G) ==
    /\ play_valid_cache' = G.env.play_valid_cache
    /\ cache_hits' = G.env.cache_hits
    /\ next_id' = G.env.next_id
    /\ solver_cache' = G.solver_cache
    /\ nodes_explored' = G.nodes_explored
    /\ board_cache_hits' = G.board_cache_hits
    /\ node_cache_hits' = G.node_cache_hits
    /\ partial_plays_skipped' = G.partial_plays_skipped
    /\ incomplete_depth_skipped' = G.incomplete_depth_skipped
    /\ infesable_board_skipped' = G.infesable_board_skipped
    /\ boards_explored' = G.boards_explored
    /\ heap' = G.heap
    /\ pc' = G.pc
    /\ solver_cache_key' = G.solver_cache_key
    /\ queue' = G.queue
    /\ explored' = G.explored
    /\ outcome' = G.outcome
    /\ returned' = G.returned

\* dict[key] = value
Put(dict, key, value) ==
    [k \in DOMAIN dict \cup {key} |-> IF k = key THEN value ELSE dict[k]]

(***************************************************************************)
(* BoardSolver.solve                                                       *)
(***************************************************************************)
\* the raise if it first took the key of the last search out of solver_cache
no_solution_unmarking(G) ==
    [G EXCEPT !.pc = "idle", !.outcome = "infeasible", !.returned = None,
              !.queue = <<>>, !.explored = {},
              !.solver_cache = [key \in DOMAIN @ \ {G.solver_cache_key} |-> @[key]]]

\* raise RuntimeError("No solution found.")
no_solution(G) ==
    [G EXCEPT !.pc = "idle", !.outcome = "infeasible", !.returned = None,
              !.queue = <<>>, !.explored = {}]

\* return board: the caller gets a reference to that Board object
return_board(G, id) ==
    [G EXCEPT !.pc = "idle", !.outcome = "board", !.returned = Some(id),
              !.queue = <<>>, !.explored = {}]

\* the check if it let two pieces through
too_few_below_two(pieces) == Len(pieces) < 2

\* "if len(pieces) < 3": not enough pieces to make a solution
too_few(pieces) == Len(pieces) < 3

\* the test if it looked at the remaining pieces only
is_solution_when_no_pieces(node) == node.pieces = <<>>

\* "if not pieces and node.incomplete_depth == 0": node holds the solution
is_solution(node) == node.pieces = <<>> /\ node.incomplete_depth = 0

\* solve up to the while loop
solve_enter(G, pieces) ==
    IF too_few(pieces) THEN no_solution(G)
    ELSE IF pieces \in DOMAIN G.solver_cache
    THEN LET hit == [G EXCEPT !.board_cache_hits = @ + 1]
         IN  IF G.solver_cache[pieces] = None THEN no_solution(hit)
             ELSE return_board(hit, G.solver_cache[pieces][1])
    ELSE LET marked == [G EXCEPT !.solver_cache = Put(@, pieces, None)]
             root == Board(G.env)
         IN  IF ~_is_board_fesable(pieces)
             THEN no_solution([marked EXCEPT !.infesable_board_skipped = @ + 1])
             ELSE [marked EXCEPT
                     !.boards_explored = @ + 1,
                     !.env = root.env,
                     !.solver_cache_key = pieces,
                     !.explored = {},
                     !.queue = <<SearchNode(root.board, pieces, None, 0)>>,
                     !.outcome = "none",
                     !.returned = None,
                     !.pc = "search"]

\* one iteration of the while loop, for a queue that is not empty
solve_step(G) ==
    LET node == G.queue[Len(G.queue)]
        popped == [G EXCEPT !.queue = SubSeq(@, 1, Len(@) - 1),
                            !.nodes_explored = @ + 1]
    IN  IF is_solution(node)
        THEN return_board(
                [popped EXCEPT
                   !.solver_cache = Put(@, G.solver_cache_key, Some(node.board.id)),
                   !.heap = Put(@, node.board.id, node.board)],
                node.board.id)
        ELSE With(expand(node, 1,
                     [queue |-> popped.queue, explored |-> G.explored, env |-> G.env,
                      node_cache_hits |-> G.node_cache_hits,
                      partial_plays_skipped |-> G.partial_plays_skipped,
                      incomplete_depth_skipped |-> G.incomplete_depth_skipped,
                      raised |-> FALSE]),
                  LAMBDA S :
             With([popped EXCEPT
                     !.queue = S.queue, !.explored = S.explored, !.env = S.env,
                     !.node_cache_hits = S.node_cache_hits,
                     !.partial_plays_skipped = S.partial_plays_skipped,
                     !.incomplete_depth_skipped = S.incomplete_depth_skipped],
                  LAMBDA expanded :
                 IF S.raised
                 THEN [expanded EXCEPT !.pc = "idle", !.outcome = "error",
                                       !.returned = None,
                                       !.queue = <<>>, !.explored = {}]
                 ELSE expanded))

\* the rest of a solve call that is inside its while loop
RECURSIVE solve_run(_)
solve_run(G) ==
    IF G.pc # "search" THEN G
    ELSE IF G.queue = <<>> THEN no_solution(G)
    ELSE solve_run(solve_step(G))

\* a whole solve call
solve(G, pieces) == solve_run(solve_enter(G, pieces))

\* insert if it extended board.pieces in place to build solve's list
insert_enter_extending_board(G, id, pieces) ==
    solve_enter([G EXCEPT !.heap[id].pieces = @ \o pieces],
                flatten(G.heap[id], pieces))

\* insert up to the while loop of the solve it calls; id names the Board
insert_enter(G, id, pieces) == solve_enter(G, flatten(G.heap[id], pieces))

\* a whole insert call
insert(G, id, pieces) == solve_run(insert_enter(G, id, pieces))

(***************************************************************************)
(* The clients: what they pass in                                          *)
(***************************************************************************)
Lists(n) == UNION {[1..k -> Pool] : k \in 0..n}

Inputs == Lists(MaxLen)

Init ==
    /\ play_valid_cache = ColdState.env.play_valid_cache
    /\ cache_hits = ColdState.env.cache_hits
    /\ next_id = ColdState.env.next_id
    /\ solver_cache = ColdState.solver_cache
    /\ nodes_explored = ColdState.nodes_explored
    /\ board_cache_hits = ColdState.board_cache_hits
    /\ node_cache_hits = ColdState.node_cache_hits
    /\ partial_plays_skipped = ColdState.partial_plays_skipped
    /\ incomplete_depth_skipped = ColdState.incomplete_depth_skipped
    /\ infesable_board_skipped = ColdState.infesable_board_skipped
    /\ boards_explored = ColdState.boards_explored
    /\ heap = ColdState.heap
    /\ pc = ColdState.pc
    /\ solver_cache_key = ColdState.solver_cache_key
    /\ queue = ColdState.queue
    /\ explored = ColdState.explored
    /\ outcome = ColdState.outcome
    /\ returned = ColdState.returned
    /\ play = None
    /\ rval = None
    /\ calls = 0
    /\ call = [op |-> "none"]
    /\ history = <<>>
    /\ hand = None
    /\ draw_pile = None
    /\ shared_plays = {}

\* what the client remembers of a call when it makes it
Call(op, board, tiles, pieces) ==
    [op |-> op, board |-> board, tiles |-> tiles, pieces |-> pieces,
     nodes_explored |-> nodes_explored, boards_explored |-> boards_explored,
     heap |-> heap, solver_cache |-> solver_cache]

\* what the client remembers of a call that ended
Done(c, G) ==
    [call |-> c, outcome |-> G.outcome, returned |-> G.returned,
     result |-> IF G.outcome = "board" THEN Some(G.heap[G.returned[1]]) ELSE None,
     nodes_explored |-> G.nodes_explored, boards_explored |-> G.boards_explored,
     heap |-> G.heap]

Commit(G, c) ==
    /\ Install(G)
    /\ call' = c
    /\ history' = IF G.pc = "idle" THEN Append(history, Done(c, G)) ELSE history

(***************************************************************************)
(* The actions                                                             *)
(***************************************************************************)
\* BoardSolver.solve(pieces) is called; it runs up to its while loop
Solve(pieces) ==
    /\ pc = "idle"
    /\ calls < MaxCalls
    /\ calls' = calls + 1
    /\ Commit(solve_enter(State, pieces), Call("solve", None, pieces, pieces))
    /\ UNCHANGED <<play, rval, hand, draw_pile, shared_plays>>

\* BoardSolver.insert(board, tiles) is called with a Board the client holds
Insert(id, tiles) ==
    /\ pc = "idle"
    /\ calls < MaxCalls
    /\ id \in DOMAIN heap
    /\ calls' = calls + 1
    /\ Commit(insert_enter(State, id, tiles),
              Call("insert", Some(id), tiles, flatten(heap[id], tiles)))
    /\ UNCHANGED <<play, rval, hand, draw_pile, shared_plays>>

\* one iteration of solve's while loop
SearchStep ==
    /\ pc = "search"
    /\ queue # <<>>
    /\ Commit(solve_step(State), call)
    /\ UNCHANGED <<play, rval, calls, hand, draw_pile, shared_plays>>

\* the while loop ends: raise RuntimeError("No solution found.")
SearchExhausted ==
    /\ pc = "search"
    /\ queue = <<>>
    /\ Commit(no_solution(State), call)
    /\ UNCHANGED <<play, rval, calls, hand, draw_pile, shared_plays>>

\* the client makes a Board of its own: Board(), then add_play(Play(pieces))
\* unless pieces is empty
NewBoard(pieces) ==
    /\ pc = "idle"
    /\ calls < MaxCalls
    /\ calls' = calls + 1
    /\ With(Board(State.env), LAMBDA new_board :
       With(IF pieces = <<>> THEN new_board
            ELSE Board_add_play(new_board.board, Play(pieces), new_board.env),
            LAMBDA added :
           Install([State EXCEPT !.env = added.env,
                                 !.heap = Put(@, added.board.id, added.board)])))
    /\ UNCHANGED <<play, rval, call, history, hand, draw_pile, shared_plays>>

\* the client makes a Play: Play(pieces), once it has asked about the last one
NewPlay(pieces) ==
    /\ pc = "idle"
    /\ calls < MaxCalls
    /\ play = None \/ rval # None
    /\ play' = Some([obj |-> Play(pieces), given |-> pieces, fresh |-> TRUE])
    /\ rval' = None
    /\ UNCHANGED <<solver_vars, calls, call, history, hand, draw_pile, shared_plays>>

\* play.is_valid(allow_partial) on the client's Play; on an empty Play with
\* allow_partial it raises IndexError before anything is written
IsValid(allow_partial) ==
    /\ pc = "idle"
    /\ calls < MaxCalls
    /\ play # None
    /\ ~RaisesIndexError(play[1].obj.pieces, allow_partial)
    /\ calls' = calls + 1
    /\ LET valid == Play_is_valid(play[1].obj, allow_partial, State.env)
       IN  /\ Install([State EXCEPT !.env = valid.env])
           /\ play' = Some([play[1] EXCEPT !.obj = valid.play, !.fresh = FALSE])
           /\ rval' = Some(valid.rval)
           /\ call' = [op |-> "is_valid", pieces |-> play[1].obj.pieces,
                       given |-> play[1].given,
                       allow_partial |-> allow_partial, fresh |-> play[1].fresh]
    /\ UNCHANGED <<history, hand, draw_pile, shared_plays>>

\* play.add_piece(piece) on a Play the client has asked about
AddPiece(piece) ==
    /\ pc = "idle"
    /\ calls < MaxCalls
    /\ play # None
    /\ rval # None
    /\ Len(play[1].obj.pieces) < MaxLen
    /\ LET added == Play_add_piece(play[1].obj, piece, State.env)
       IN  /\ Install([State EXCEPT !.env = added.env])
           /\ play' = Some([play[1] EXCEPT !.obj = added.play, !.fresh = FALSE])
    /\ rval' = None
    /\ UNCHANGED <<calls, call, history, hand, draw_pile, shared_plays>>

(***************************************************************************)
(* Spec: clients of the solver.                                            *)
(***************************************************************************)
Next ==
    \/ \E pieces \in Inputs : Solve(pieces)
    \/ \E id \in DOMAIN heap : \E tiles \in Inputs : Insert(id, tiles)
    \/ \E pieces \in Lists(2) : NewBoard(pieces)
    \/ SearchStep
    \/ SearchExhausted

Spec == Init /\ [][Next]_vars

(***************************************************************************)
(* SpecPlay: clients of Play.                                              *)
(***************************************************************************)
NextPlay ==
    \/ \E pieces \in Inputs : NewPlay(pieces)
    \/ \E allow_partial \in BOOLEAN : IsValid(allow_partial)
    \/ \E piece \in Pool : AddPiece(piece)

SpecPlay == Init /\ [][NextPlay]_vars

(***************************************************************************)
(* The terms of the properties, stated without the program's operators.    *)
(***************************************************************************)
Range(s) == {s[i] : i \in 1..Len(s)}

Count(s, x) == Cardinality({i \in 1..Len(s) : s[i] = x})

\* the same tiles, duplicates counted
SameTiles(a, b) == \A x \in Range(a) \cup Range(b) : Count(a, x) = Count(b, x)

\* one colour, numbers consecutive with no gap and no repeat
RunShape(pieces) ==
    /\ pieces # <<>>
    /\ \A i, j \in 1..Len(pieces) : pieces[i].color = pieces[j].color
    /\ LET N == {pieces[i].number : i \in 1..Len(pieces)}
       IN  /\ Cardinality(N) = Len(pieces)
           /\ \E lo \in N : N = lo..(lo + Len(pieces) - 1)

\* one number, no colour twice
SetShape(pieces) ==
    /\ pieces # <<>>
    /\ \A i, j \in 1..Len(pieces) : pieces[i].number = pieces[j].number
    /\ \A i, j \in 1..Len(pieces) : i # j => pieces[i].color # pieces[j].color

IsRun(pieces) == Len(pieces) >= 3 /\ RunShape(pieces)

IsSet(pieces) == Len(pieces) >= 3 /\ SetShape(pieces)

IsGroup(pieces) == IsRun(pieces) \/ IsSet(pieces)

\* the elements of s at the positions in I, in order
RECURSIVE Pick(_, _, _)
Pick(s, I, i) ==
    IF i > Len(s) THEN <<>>
    ELSE (IF i \in I THEN <<s[i]>> ELSE <<>>) \o Pick(s, I, i + 1)

\* the tiles can be split into runs and sets
RECURSIVE Partitionable(_)
Partitionable(s) ==
    \/ s = <<>>
    \/ \E I \in SUBSET (2..Len(s)) :
          /\ IsGroup(<<s[1]>> \o Pick(s, I, 1))
          /\ Partitionable(Pick(s, (2..Len(s)) \ I, 1))

\* every tile on a Board, play by play
TilesOf(board) ==
    LET RECURSIVE tiles(_)
        tiles(i) == IF i > Len(board.plays) THEN <<>>
                    ELSE board.plays[i].pieces \o tiles(i + 1)
    IN  tiles(1)

\* the tiles a finished call was given, and the tiles of the Board it was given
GivenTiles(h) ==
    IF h.call.op = "insert"
    THEN TilesOf(h.call.heap[h.call.board[1]]) \o h.call.tiles
    ELSE h.call.tiles

Finished == {history[i] : i \in 1..Len(history)}

\* the call ran the search
Searched(h) == h.boards_explored > h.call.boards_explored

(***************************************************************************)
(* SpecCold: one solve call with both caches empty, on every short list    *)
(* and on every ordering of up to MaxGroups runs and sets.                 *)
(***************************************************************************)
duplicates == 2

RECURSIVE SetToSeq(_)
SetToSeq(S) ==
    IF S = {} THEN <<>>
    ELSE LET x == CHOOSE y \in S : TRUE IN <<x>> \o SetToSeq(S \ {x})

RECURSIVE Orderings(_)
Orderings(s) ==
    IF s = <<>> THEN {<<>>}
    ELSE UNION {{<<x>> \o t : t \in Orderings(remove(s, x))} : x \in Range(s)}

Groups == {g \in {SetToSeq(S) : S \in SUBSET Pool} : IsGroup(g)}

RECURSIVE GroupLists(_)
GroupLists(n) ==
    IF n = 0 THEN {<<>>}
    ELSE LET less == GroupLists(n - 1)
         IN  less \cup
             {s \in {t \o g : t \in less, g \in Groups} :
                 /\ Len(s) <= 2 * MaxLen
                 /\ \A x \in Range(s) : Count(s, x) <= duplicates}

ColdInputs == Lists(MaxLen + 1) \cup UNION {Orderings(s) : s \in GroupLists(MaxGroups)}

SolveCold(pieces) == calls = 0 /\ Solve(pieces)

NextCold ==
    \/ \E pieces \in ColdInputs : SolveCold(pieces)
    \/ SearchStep
    \/ SearchExhausted

SpecCold == Init /\ [][NextCold]_vars

(***************************************************************************)
(* Properties                                                              *)
(***************************************************************************)

\* C1: every Board that solve or insert returned, found by the search or
\* taken from solver_cache, holds only runs and sets of at least 3 tiles.
C1_ReturnedBoardsHoldOnlyGroups ==
    \A h \in Finished :
        h.outcome = "board" =>
            \A j \in 1..Len(h.result[1].plays) :
                /\ Len(h.result[1].plays[j].pieces) >= 3
                /\ IsGroup(h.result[1].plays[j].pieces)

\* an insert into a returned Board came back with a Board of two plays
C1_Witness ==
    \E h \in Finished :
        /\ h.call.op = "insert"
        /\ h.outcome = "board"
        /\ Len(h.result[1].plays) = 2

\* C2: the tiles on a SearchNode's Board together with the node's remaining
\* pieces are the tiles solve was given, duplicates counted; a returned Board
\* holds exactly the tiles given to solve, or those of insert's Board and tiles.
C2_TilesAreConserved ==
    /\ pc = "search" =>
          \A k \in 1..Len(queue) :
              SameTiles(TilesOf(queue[k].board) \o queue[k].pieces, call.pieces)
    /\ \A h \in Finished :
          h.outcome = "board" => SameTiles(TilesOf(h.result[1]), GivenTiles(h))

\* inside an insert, a node with two plays placed and tiles still to place,
\* one of the tiles given twice
C2_Witness ==
    /\ pc = "search"
    /\ call.op = "insert"
    /\ \E x \in Range(call.pieces) : Count(call.pieces, x) = 2
    /\ \E k \in 1..Len(queue) :
          Len(queue[k].board.plays) = 2 /\ queue[k].pieces # <<>>

\* C3: solve with a cold result cache, given at least 3 tiles that can be
\* split into runs and sets, returns a Board; its while loop never runs out
\* of nodes on such tiles.
C3_SolveFindsAnArrangement ==
    /\ pc = "search" /\ queue = <<>> => ~Partitionable(call.pieces)
    /\ \A h \in Finished :
          /\ Len(h.call.pieces) >= 3
          /\ Partitionable(h.call.pieces)
          /\ h.call.pieces \notin DOMAIN h.call.solver_cache
          => h.outcome = "board"

\* six tiles that make two groups were solved by a search
C3_Witness ==
    \E h \in Finished :
        /\ Len(h.call.pieces) = 6
        /\ Partitionable(h.call.pieces)
        /\ Searched(h)
        /\ h.outcome = "board"
        /\ Len(h.result[1].plays) = 2

\* C4: two solve calls with the same tiles in any order end the same way,
\* with equal Boards, and the second does not run the search again.
C4_SameTilesSameOutcomeNoSearch ==
    \A i, j \in 1..Len(history) :
        /\ i < j
        /\ history[i].call.op = "solve"
        /\ history[j].call.op = "solve"
        /\ SameTiles(history[i].call.pieces, history[j].call.pieces)
        => /\ history[j].outcome = history[i].outcome
           /\ history[i].outcome = "board" =>
                 Board_eq(history[i].result[1], history[j].result[1])
           /\ history[j].nodes_explored = history[j].call.nodes_explored
           /\ history[j].boards_explored = history[j].call.boards_explored

\* C5: solve on fewer than 3 tiles, and insert when the Board's tiles and the
\* new tiles are fewer than 3, signal Infeasible and explore no node.
C5_FewerThanThreeIsInfeasible ==
    /\ pc = "search" => Len(call.pieces) >= 3
    /\ \A h \in Finished :
          Len(GivenTiles(h)) < 3 =>
              /\ h.outcome = "infeasible"
              /\ h.nodes_explored = h.call.nodes_explored
              /\ h.boards_explored = h.call.boards_explored

\* an insert of no tile into a Board of two tiles was refused
C5_Witness ==
    \E h \in Finished :
        /\ h.call.op = "insert"
        /\ Len(GivenTiles(h)) = 2
        /\ h.outcome = "infeasible"

\* C6: whatever earlier calls left in solver_cache and play_valid_cache, a
\* call ends (Board or Infeasible) as the same call with both caches empty.
C6_CachesDoNotChangeTheOutcome ==
    pc = "idle" /\ history # <<>> =>
        LET h == history[Len(history)]
        IN  h.outcome = solve(ColdState, h.call.pieces).outcome

\* a search that found a Board after an earlier search had filled the caches
C6_Witness ==
    /\ pc = "idle"
    /\ Len(history) = 2
    /\ Searched(history[1])
    /\ Searched(history[2])
    /\ history[2].outcome = "board"
    /\ cache_hits > 0

\* C7: insert leaves the Board it was given as it was, plays, pieces and
\* num_patial_plays, while it runs and when it has returned or raised.
C7_InsertLeavesItsBoardAlone ==
    /\ call.op = "insert" => heap[call.board[1]] = call.heap[call.board[1]]
    /\ \A h \in Finished :
          h.call.op = "insert" =>
              h.heap[h.call.board[1]] = h.call.heap[h.call.board[1]]

\* an insert of tiles into a Board that holds a play returned a Board
C7_Witness ==
    \E h \in Finished :
        /\ h.call.op = "insert"
        /\ h.call.tiles # <<>>
        /\ h.call.heap[h.call.board[1]].plays # <<>>
        /\ h.outcome = "board"

\* C8: a returned Board is a new object: not the Board given to insert, not
\* a Board returned earlier or held in solver_cache when the call was made.
C8_ReturnedBoardIsBrandNew ==
    \A h \in Finished :
        h.outcome = "board" => h.returned[1] \notin DOMAIN h.call.heap

\* C9: is_valid() on a freshly constructed Play is True exactly when the
\* tiles given are a run or a set of at least 3 tiles.
C9_NonPartialValidity ==
    /\ call.op = "is_valid"
    /\ call.fresh
    /\ ~call.allow_partial
    /\ rval # None
    => rval[1] = (IsRun(call.given) \/ IsSet(call.given))

\* a fresh Play of the set r1 b1 k1 was found valid with a warm cache
C9_Witness ==
    /\ call.op = "is_valid"
    /\ call.fresh
    /\ ~call.allow_partial
    /\ calls = 2
    /\ IsSet(call.given)
    /\ rval = Some(TRUE)

\* C10: is_valid(allow_partial=True) on a freshly constructed Play that is
\* not empty is True exactly when the tiles have the shape of a run or of a
\* set, whatever their number; on 3 tiles or more that is is_valid()'s answer.
C10_PartialValidity ==
    /\ call.op = "is_valid"
    /\ call.fresh
    /\ call.allow_partial
    /\ call.given # <<>>
    /\ rval # None
    => /\ rval[1] = (RunShape(call.given) \/ SetShape(call.given))
       /\ Len(call.given) >= 3 => rval[1] = (IsRun(call.given) \/ IsSet(call.given))

\* a fresh Play of two tiles was found valid under the partial rule
C10_Witness ==
    /\ call.op = "is_valid"
    /\ call.fresh
    /\ call.allow_partial
    /\ Len(call.given) = 2
    /\ rval = Some(TRUE)

\* C11: every is_valid(allow_partial) call on a Play, after whatever
\* is_valid and add_piece calls were made on it, returns what a new Play of
\* the same tiles returns for that flag.
C11_IsValidDependsOnTilesAndFlagOnly ==
    /\ call.op = "is_valid"
    /\ rval # None
    => rval[1] = Play_is_valid(Play(call.pieces), call.allow_partial,
                               ColdState.env).rval

\* how many of the tile lists are neither a run nor a set of 3 tiles or more
InvalidPlays(key) == Cardinality({j \in 1..Len(key) : ~IsGroup(key[j])})

\* C12: at every step of every solve call, a Board in the explored set or
\* on the stack has at most one play that is not a run or set of at least 3
\* tiles, and a Board on the stack has num_patial_plays <= 1.
C12_AtMostOnePartialPlay ==
    pc = "search" =>
        /\ \A key \in explored : InvalidPlays(key) <= 1
        /\ \A k \in 1..Len(queue) :
              /\ queue[k].board.num_patial_plays <= 1
              /\ InvalidPlays(BoardKey(queue[k].board)) <= 1

\* a Board with a finished play and a partial one is on the stack and in
\* the explored set
C12_Witness ==
    /\ pc = "search"
    /\ \E k \in 1..Len(queue) :
          /\ Len(queue[k].board.plays) = 2
          /\ queue[k].board.num_patial_plays = 1
          /\ InvalidPlays(BoardKey(queue[k].board)) = 1
          /\ BoardKey(queue[k].board) \in explored

(***************************************************************************)
(* SpecPiece: clients that compare two Pieces.                             *)
(***************************************************************************)
\* every Piece the constructor accepts
AllPieces == {Piece(colors[c], n) : c \in 1..Len(colors), n \in 1..max_number}

\* a < b, a == b and b < a are evaluated for two Pieces
Compare(a, b) ==
    /\ pc = "idle"
    /\ call' = [op |-> "compare", a |-> a, b |-> b,
                lt |-> Piece_lt(a, b), eq |-> Piece_eq(a, b), gt |-> Piece_lt(b, a)]
    /\ UNCHANGED <<solver_vars, play, rval, calls, history, hand, draw_pile, shared_plays>>

NextPiece == \E a \in AllPieces : \E b \in AllPieces : Compare(a, b)

SpecPiece == Init /\ [][NextPiece]_vars

\* C13: for any two Pieces a and b exactly one of a < b, a == b, b < a holds.
C13_ExactlyOneOfLessEqualGreater ==
    call.op = "compare" =>
        Cardinality({r \in {"lt", "eq", "gt"} : call[r]}) = 1

\* C14: a Play built by the constructor and add_piece is equal to, and has
\* the hash of, the Play built from the same tiles given in any other order.
C14_PlayEqualityIgnoresOrder ==
    play # None =>
        \A other \in Orderings(play[1].obj.pieces) :
            /\ Play_eq(play[1].obj, Play(other))
            /\ Play_hash(play[1].obj) = Play_hash(Play(other))

(***************************************************************************)
(* drawpile.py                                                             *)
(***************************************************************************)
\* The DrawPile of the model is built over the first PileColors colours and
\* the numbers 1..PileNumbers.
PileColors == 2
PileNumbers == 2

\* the list DrawPile.__init__ builds before it shuffles: for each duplicate,
\* for each color, for each number
unshuffled ==
    [k \in 1..(duplicates * PileColors * PileNumbers) |->
        Piece(colors[(((k - 1) \div PileNumbers) % PileColors) + 1],
              ((k - 1) % PileNumbers) + 1)]

\* random.shuffle: any order of the list
shuffle(pieces) == Orderings(pieces)

\* DrawPile.__init__, given the order the shuffle left
DrawPile(shuffled) == [_pieces |-> shuffled]

DrawPile_is_empty(pile) == Len(pile._pieces) = 0

\* draw if it returned the last piece without taking it off the pile
DrawPile_draw_without_pop(pile) ==
    IF pile._pieces = <<>>
    THEN [raised |-> TRUE, piece |-> None, pile |-> pile]
    ELSE [raised |-> FALSE, piece |-> Some(pile._pieces[Len(pile._pieces)]),
          pile |-> pile]

\* DrawPile.draw: self._pieces.pop(), RuntimeError("Draw pile is empty.")
\* on IndexError
DrawPile_draw(pile) ==
    IF pile._pieces = <<>>
    THEN [raised |-> TRUE, piece |-> None, pile |-> pile]
    ELSE [raised |-> FALSE, piece |-> Some(pile._pieces[Len(pile._pieces)]),
          pile |-> [pile EXCEPT !._pieces = SubSeq(@, 1, Len(@) - 1)]]

\* the client makes a DrawPile: DrawPile()
NewDrawPile(shuffled) ==
    /\ pc = "idle"
    /\ draw_pile = None
    /\ draw_pile' = Some(DrawPile(shuffled))
    /\ call' = [op |-> "DrawPile", drawn |-> <<>>, raised |-> FALSE,
                was_empty |-> FALSE]
    /\ UNCHANGED <<solver_vars, play, rval, calls, history, hand, shared_plays>>

\* draw_pile.draw() is called; call.drawn lists what the pile has returned
Draw ==
    /\ pc = "idle"
    /\ draw_pile # None
    /\ call.op \in {"DrawPile", "draw"}
    /\ With(DrawPile_draw(draw_pile[1]), LAMBDA drew :
           /\ draw_pile' = Some(drew.pile)
           /\ call' = [op |-> "draw",
                       drawn |-> call.drawn \o drew.piece,
                       raised |-> drew.raised,
                       was_empty |-> DrawPile_is_empty(draw_pile[1])])
    /\ UNCHANGED <<solver_vars, play, rval, calls, history, hand, shared_plays>>

(***************************************************************************)
(* SpecPile: a client that makes a DrawPile and draws from it.             *)
(***************************************************************************)
NextPile ==
    \/ \E shuffled \in shuffle(unshuffled) : NewDrawPile(shuffled)
    \/ Draw

SpecPile == Init /\ [][NextPile]_vars

\* C18: of a new DrawPile every tile is, at any time, either still in the
\* pile or was returned by draw, duplicates times in all; is_empty() is True
\* exactly when duplicates * colours * numbers tiles were drawn; draw raises
\* exactly on an empty pile, returns nothing then and leaves the pile empty.
C18_PileIsFiniteAndNotReplenished ==
    draw_pile # None /\ call.op \in {"DrawPile", "draw"} =>
        /\ \A x \in Range(unshuffled) :
              Count(call.drawn, x) + Count(draw_pile[1]._pieces, x) = duplicates
        /\ Len(call.drawn) + Len(draw_pile[1]._pieces) = Len(unshuffled)
        /\ DrawPile_is_empty(draw_pile[1])
              <=> Len(call.drawn) = duplicates * PileColors * PileNumbers
        /\ call.raised <=> call.was_empty
        /\ call.raised => DrawPile_is_empty(draw_pile[1])

\* the pile was drawn empty and a further draw raised
C18_Witness ==
    /\ draw_pile # None
    /\ call.op = "draw"
    /\ call.raised
    /\ Len(call.drawn) = duplicates * PileColors * PileNumbers
    /\ \A x \in Range(unshuffled) : Count(call.drawn, x) = duplicates

(***************************************************************************)
(* hand.py                                                                 *)
(***************************************************************************)
\* longest list of pieces a client gives a Hand
MaxHand == 4
\* longest list of pieces a client leaves in the DrawPile it passes
MaxPile == 1

\* the default of take_turn's max_turn_size
max_turn_size_default == 3

\* Hand.__init__
Hand(pieces) == [pieces |-> pieces, board_move_cache |-> {}]

\* itertools.combinations(pieces, r): the r-length tuples, in its order
RECURSIVE combinations(_, _)
combinations(pieces, r) ==
    IF r = 0 THEN << <<>> >>
    ELSE IF Len(pieces) < r THEN <<>>
    ELSE With(combinations(Tail(pieces), r - 1), LAMBDA rest :
              [i \in 1..Len(rest) |-> <<pieces[1]>> \o rest[i]])
         \o combinations(Tail(pieces), r)

\* [piece for piece in self.pieces if piece not in pieces]
not_in(hand_pieces, pieces) ==
    SelectSeq(hand_pieces,
              LAMBDA piece : \A i \in 1..Len(pieces) : ~Piece_eq(piece, pieces[i]))

\* the body of "for pieces in itertools.combinations(...)", from tuple k on.
\* T is [G, hand, board, took_turn, inserted, skipped]: the engine's state, the
\* Hand, the id of the Board held in the local "board", the tuples inserted
\* and the tuples passed over with print(".").
RECURSIVE try_combinations(_, _, _)
try_combinations(combos, k, T) ==
    IF k > Len(combos) THEN T
    ELSE IF combos[k] \in T.hand.board_move_cache
    THEN try_combinations(combos, k + 1,
             [T EXCEPT !.skipped = Append(@, combos[k])])
    ELSE With(insert(T.G, T.board, combos[k]), LAMBDA G :
         IF G.outcome = "board"
         THEN [G |-> G,
               hand |-> Hand(not_in(T.hand.pieces, combos[k])),
               board |-> G.returned[1],
               took_turn |-> TRUE,
               inserted |-> Append(T.inserted, combos[k]),
               skipped |-> T.skipped]
         ELSE try_combinations(combos, k + 1,
                  [T EXCEPT !.G = G,
                            !.hand.board_move_cache = @ \cup {combos[k]}]))

\* "for combination_length in range(combination_upper_bound, 1, -1)"
RECURSIVE for_combination_length(_, _)
for_combination_length(combination_length, T) ==
    IF combination_length <= 1 THEN T
    ELSE for_combination_length(combination_length - 1,
             try_combinations(combinations(T.hand.pieces, combination_length), 1, T))

combination_upper_bound(max_turn_size, self) ==
    IF max_turn_size < Len(self.pieces) + 1 THEN max_turn_size
    ELSE Len(self.pieces) + 1

\* take_turn if it drew whether or not a turn was taken
take_turn_drawing_anyway(G, self, board, pile, max_turn_size) ==
    With(for_combination_length(combination_upper_bound(max_turn_size, self),
             [G |-> G, hand |-> self, board |-> board, took_turn |-> FALSE,
              inserted |-> <<>>, skipped |-> <<>>]),
         LAMBDA T :
         With(DrawPile_draw(pile), LAMBDA drew :
         [G |-> T.G,
          hand |-> IF drew.raised THEN T.hand
                   ELSE [T.hand EXCEPT !.pieces = @ \o drew.piece],
          board |-> T.board, took_turn |-> T.took_turn, inserted |-> T.inserted,
          skipped |-> T.skipped, pile |-> drew.pile, raised |-> drew.raised]))

\* Hand.take_turn: what it returns or raises, and the Hand, DrawPile and
\* engine afterwards
take_turn(G, self, board, pile, max_turn_size) ==
    With(for_combination_length(combination_upper_bound(max_turn_size, self),
             [G |-> G, hand |-> self, board |-> board, took_turn |-> FALSE,
              inserted |-> <<>>, skipped |-> <<>>]),
         LAMBDA T :
    IF T.took_turn
    THEN [G |-> T.G, hand |-> T.hand, board |-> T.board, took_turn |-> TRUE,
          inserted |-> T.inserted, skipped |-> T.skipped, pile |-> pile,
          raised |-> FALSE]
    ELSE With(DrawPile_draw(pile), LAMBDA drew :
         [G |-> T.G,
          hand |-> IF drew.raised THEN T.hand
                   ELSE [T.hand EXCEPT !.pieces = @ \o drew.piece],
          board |-> T.board, took_turn |-> FALSE, inserted |-> T.inserted,
          skipped |-> T.skipped, pile |-> drew.pile, raised |-> drew.raised]))

\* the pieces the clients put in Hands and leave in DrawPiles
HandPool == {Piece("red", 1), Piece("red", 2), Piece("red", 3)}

HandInputs == UNION {[1..k -> HandPool] : k \in 0..MaxHand}

PileInputs == UNION {[1..k -> {Piece("red", 4)}] : k \in 0..MaxPile}

\* the client makes a Hand and a DrawPile that holds the pieces left in it
NewHand(pieces, left) ==
    /\ pc = "idle"
    /\ hand = None
    /\ hand' = Some(Hand(pieces))
    /\ draw_pile' = Some(DrawPile(left))
    /\ UNCHANGED <<solver_vars, play, rval, calls, call, history, shared_plays>>

\* hand.take_turn(board, draw_pile, max_turn_size) with a Board the client
\* holds; call remembers what went in and what came out
TakeTurn(id, max_turn_size) ==
    /\ pc = "idle"
    /\ calls < MaxCalls
    /\ hand # None
    /\ id \in DOMAIN heap
    /\ calls' = calls + 1
    /\ With(take_turn(State, hand[1], id, draw_pile[1], max_turn_size), LAMBDA t :
           /\ Install(t.G)
           /\ hand' = Some(t.hand)
           /\ draw_pile' = Some(t.pile)
           /\ call' = [op |-> "take_turn", board |-> id,
                       max_turn_size |-> max_turn_size,
                       hand |-> hand[1].pieces, pile |-> draw_pile[1]._pieces,
                       heap |-> heap, raised |-> t.raised,
                       took_turn |-> t.took_turn, returned |-> t.board,
                       inserted |-> t.inserted, skipped |-> t.skipped])
    /\ UNCHANGED <<play, rval, history, shared_plays>>

(***************************************************************************)
(* SpecHand: a client that makes a Board, a Hand and a DrawPile and takes  *)
(* a turn.                                                                 *)
(***************************************************************************)
NextHand ==
    \/ \E pieces \in Lists(2) : calls = 0 /\ NewBoard(pieces)
    \/ \E pieces \in HandInputs : \E left \in PileInputs : NewHand(pieces, left)
    \/ \E id \in DOMAIN heap : \E max_turn_size \in 1..max_turn_size_default :
          TakeTurn(id, max_turn_size)

SpecHand == Init /\ [][NextHand]_vars

\* C15: after a take_turn call that returned, the tiles in the hand, on the
\* returned Board and in the draw pile are, duplicates counted, the tiles
\* that were in the hand, on the given Board and in the draw pile before.
C15_TakeTurnConservesTiles ==
    call.op = "take_turn" /\ ~call.raised =>
        SameTiles(hand[1].pieces \o TilesOf(heap[call.returned])
                      \o draw_pile[1]._pieces,
                  call.hand \o TilesOf(call.heap[call.board]) \o call.pile)

\* some tiles of the hand, at most max_turn_size and at least one, make
\* runs and sets together with the tiles of the Board
CanPlay(held, board, max_turn_size) ==
    \E I \in SUBSET (1..Len(held)) :
        /\ I # {}
        /\ Cardinality(I) <= max_turn_size
        /\ Partitionable(TilesOf(board) \o Pick(held, I, 1))

\* C16: when some tiles of the hand, at most max_turn_size of them, can be
\* inserted into the Board, take_turn takes a turn: it returns took_turn
\* True and a Board with tiles of the hand inserted, and does not draw.
C16_TakeTurnPlaysWheneverItCan ==
    /\ call.op = "take_turn"
    /\ CanPlay(call.hand, call.heap[call.board], call.max_turn_size)
    => /\ call.took_turn
       /\ call.inserted # <<>>
       /\ draw_pile[1]._pieces = call.pile

C19_AddPieceNeverRaisesDuringSolve ==
    /\ outcome # "error"
    /\ \A h \in Finished : h.outcome # "error"
    /\ pc = "search" =>
          \A i \in 1..Len(queue) : \A j \in 1..Len(queue[i].board.plays) :
              Len(queue[i].board.plays[j].pieces) > 3 =>
                  IsGroup(queue[i].board.plays[j].pieces)

\* the search put a tile on a play that was a run or set of 3 tiles already
C19_Witness ==
    /\ pc = "search"
    /\ \E i \in 1..Len(queue) : \E j \in 1..Len(queue[i].board.plays) :
          /\ Len(queue[i].board.plays[j].pieces) = 4
          /\ queue[i].board.num_patial_plays = 0

(***************************************************************************)
(* SpecBoard: a client that builds Boards with add_play, copy and          *)
(* add_piece at a place get_places_for_piece offers.  A Python list holds  *)
(* references: add_play(play) appends the caller's Play object itself, so  *)
(* one Play object can be in several places of Boards' plays lists.        *)
(* shared_plays holds the sets of places, <<Board id, index>>, of the      *)
(* objects that are in more than one place.                                *)
(***************************************************************************)
\* the calls the client of a Board makes
MaxBoardOps == 3

\* list(board.get_places_for_piece(piece, allow_partial)), from play i on;
\* acc is [places, env, self]: a place counts from 1, and self is the Board
\* it was called on, as it is by now
RECURSIVE get_places_for_piece(_, _, _, _, _)
get_places_for_piece(board, piece, allow_partial, i, acc) ==
    IF i > Len(board.plays) THEN acc
    ELSE With(Play_can_add_piece(acc.self.plays[i], piece, allow_partial, acc.env),
              LAMBDA can :
             get_places_for_piece(board, piece, allow_partial, i + 1,
                 [places |-> IF can.rval THEN Append(acc.places, i)
                             ELSE acc.places,
                  env |-> can.env,
                  self |-> [acc.self EXCEPT !.plays[i] = can.self]]))

\* the places that hold the Play object of place s
SharedWith(s) ==
    IF \E c \in shared_plays : s \in c
    THEN CHOOSE c \in shared_plays : s \in c
    ELSE {s}

\* the Play object at the places in slots is now play: every plays list
\* that holds it shows it
WriteThrough(h, slots, p) ==
    [id \in DOMAIN h |->
        [h[id] EXCEPT !.plays = [j \in 1..Len(@) |->
                                    IF <<id, j>> \in slots THEN p ELSE @[j]]]]

\* shared_plays once each pair <<place, new place>> of pairs holds one Play
\* object
Share(shared, pairs) ==
    {c \cup {pair[2] : pair \in {q \in pairs : q[1] \in c}} : c \in shared}
    \cup {{pair[1]} \cup {q[2] : q \in {q \in pairs : q[1] = pair[1]}} :
             pair \in {q \in pairs : \A c \in shared : q[1] \notin c}}

\* board.add_play(Play(pieces)): a Play of its own
AddPlay(id, pieces) ==
    /\ pc = "idle"
    /\ calls < MaxBoardOps
    /\ id \in DOMAIN heap
    /\ calls' = calls + 1
    /\ With(Board_add_play(heap[id], Play(pieces), State.env), LAMBDA added :
           Install([State EXCEPT !.env = added.env,
                                 !.heap = Put(@, id, added.board)]))
    /\ call' = [op |-> "add_play", board |-> id, shared |-> FALSE, heap |-> heap]
    /\ UNCHANGED <<play, rval, history, hand, draw_pile, shared_plays>>

\* board.add_play(p) with the Play object p that src.plays holds at place j
AddSamePlay(id, src, j) ==
    /\ pc = "idle"
    /\ calls < MaxBoardOps
    /\ id \in DOMAIN heap
    /\ src \in DOMAIN heap
    /\ j \in 1..Len(heap[src].plays)
    /\ calls' = calls + 1
    /\ With(Board_add_play(heap[id], heap[src].plays[j], State.env), LAMBDA added :
       With(SharedWith(<<src, j>>) \cup {<<id, Len(added.board.plays)>>},
            LAMBDA slots :
           /\ Install([State EXCEPT
                         !.env = added.env,
                         !.heap = WriteThrough(Put(@, id, added.board), slots,
                                      added.board.plays[Len(added.board.plays)])])
           /\ shared_plays' = (shared_plays \ {SharedWith(<<src, j>>)}) \cup {slots}))
    /\ call' = [op |-> "add_play", board |-> id, shared |-> TRUE, heap |-> heap]
    /\ UNCHANGED <<play, rval, history, hand, draw_pile>>

\* board.copy(), kept by the client
CopyBoard(id) ==
    /\ pc = "idle"
    /\ calls < MaxBoardOps
    /\ id \in DOMAIN heap
    /\ calls' = calls + 1
    /\ With(Board_copy(heap[id], State.env), LAMBDA new_board :
           /\ Install([State EXCEPT
                         !.env = new_board.env,
                         !.heap = Put(@, new_board.board.id, new_board.board)])
           /\ shared_plays' =
                  Share(shared_plays,
                        {<<<<id, j>>, <<new_board.board.id, j>>>> :
                             j \in new_board.same_plays}))
    /\ call' = [op |-> "copy", board |-> id, heap |-> heap]
    /\ UNCHANGED <<play, rval, history, hand, draw_pile>>

\* board.add_piece(piece, i) for an i that
\* board.get_places_for_piece(piece, allow_partial) yields
AddPieceAt(id, piece, allow_partial, i) ==
    /\ pc = "idle"
    /\ calls < MaxBoardOps
    /\ id \in DOMAIN heap
    /\ calls' = calls + 1
    /\ With(get_places_for_piece(heap[id], piece, allow_partial, 1,
                                 [places |-> <<>>, env |-> State.env,
                                  self |-> heap[id]]),
            LAMBDA offered :
           /\ i \in Range(offered.places)
           /\ With(Board_add_piece(offered.self, piece, i, offered.env), LAMBDA added :
                  /\ Install([State EXCEPT
                                !.env = added.env,
                                !.heap = WriteThrough(Put(@, id, added.board),
                                             SharedWith(<<id, i>>),
                                             added.board.plays[i])])
                  /\ call' = [op |-> "add_piece", board |-> id, place |-> i,
                              raised |-> added.raised, heap |-> heap]))
    /\ UNCHANGED <<play, rval, history, hand, draw_pile, shared_plays>>

NextBoard ==
    \/ \E pieces \in Lists(2) : NewBoard(pieces)
    \/ \E id \in DOMAIN heap : \E pieces \in Lists(2) : AddPlay(id, pieces)
    \/ \E id \in DOMAIN heap : \E src \in DOMAIN heap :
          \E j \in 1..Len(heap[src].plays) : AddSamePlay(id, src, j)
    \/ \E id \in DOMAIN heap : CopyBoard(id)
    \/ \E id \in DOMAIN heap : \E piece \in Pool : \E allow_partial \in BOOLEAN :
          \E i \in 1..Len(heap[id].plays) : AddPieceAt(id, piece, allow_partial, i)

SpecBoard == Init /\ [][NextBoard]_vars

\* C20: on every Board built from Board() by add_play, copy and add_piece at
\* a place get_places_for_piece offered, num_patial_plays is the number of
\* plays that are not a run or set of 3 or more tiles, and is_valid() is
\* True exactly when every play is such a run or set.
C20_CounterCountsInvalidPlays ==
    \A id \in DOMAIN heap :
        /\ heap[id].num_patial_plays = InvalidPlays(BoardKey(heap[id]))
        /\ Board_is_valid(heap[id]) <=>
              \A j \in 1..Len(heap[id].plays) : IsGroup(heap[id].plays[j].pieces)

\* an entry of play_valid_cache stays where it was hashed, with its flag and
\* its value, in this step; its key, a Play object, may have grown
EntriesKept ==
    \A e \in play_valid_cache :
        \E kept \in play_valid_cache' :
            /\ kept.hpieces = e.hpieces
            /\ kept.flag = e.flag
            /\ kept.value = e.value
            /\ Len(kept.kpieces) >= Len(e.kpieces)

\* C21 as stated: no step of a solve or insert call changes the value that
\* solver_cache holds under a key that is present, or the value of an entry
\* of play_valid_cache.
C21_CachesAreAppendOnly ==
    [][/\ \A key \in DOMAIN solver_cache :
             /\ key \in DOMAIN solver_cache'
             /\ solver_cache'[key] = solver_cache[key]
       /\ EntriesKept]_vars

\* C21, amended: no key leaves solver_cache, and the value under a key
\* changes in one way only: the step of solve that returns the Board it
\* found puts that Board under the key of the call in progress, in place of
\* the None the call stored when it started.  A Board under a key, and a
\* None under any other key, stay.  Entries of play_valid_cache stay.
C21_OnlyTheProvisionalNoneIsReplaced ==
    [][/\ \A key \in DOMAIN solver_cache :
             /\ key \in DOMAIN solver_cache'
             /\ \/ solver_cache'[key] = solver_cache[key]
                \/ /\ solver_cache[key] = None
                   /\ pc = "search"
                   /\ key = solver_cache_key
                   /\ pc' = "idle"
                   /\ outcome' = "board"
                   /\ solver_cache'[key] = returned'
       /\ EntriesKept]_vars

\* a search has put the Board it found under its key, where it had put None,
\* and Plays were looked up in play_valid_cache meanwhile
C21_Witness ==
    /\ pc = "idle"
    /\ outcome = "board"
    /\ call.op \in {"solve", "insert"}
    /\ boards_explored > call.boards_explored
    /\ solver_cache[call.pieces] = returned
    /\ cache_hits > 0

\* C22: a lookup in play_valid_cache for a Play with tiles S and flag f finds
\* the entries filed under the hash of S whose key equals S now.  Each of
\* them holds what is_valid computes for S under f, also after Plays that
\* are keys were appended to.  (The hash of a tile list is taken to be
\* different for different lists.)
C22_ValidityCacheIsSound ==
    \A pieces \in {e.kpieces : e \in play_valid_cache} : \A flag \in BOOLEAN :
        \A e \in CacheFind(play_valid_cache, pieces, flag) :
            e.value = (\/ is_valid_straight(pieces, flag)
                       \/ is_valid_collection(pieces, flag))

\* a Play was appended to after it became a key, its entry holds the value
\* of the shorter list, and a lookup for the longer list finds another
\* entry, with another value
C22_Witness ==
    \E stale \in play_valid_cache :
        /\ stale.hpieces # stale.kpieces
        /\ \E e \in CacheFind(play_valid_cache, stale.kpieces, stale.flag) :
              e.value # stale.value

(***************************************************************************)
(* SpecBranch: a client that asks Plays and Boards what can be added, lets *)
(* a Board branch, and goes on building the Boards it holds.  Every Play   *)
(* it gives to add_play is a Play of its own.                              *)
(***************************************************************************)
\* the queries the client makes
MaxQueries == 1

\* dict[board.id] = board for every Board of the list
RECURSIVE PutAll(_, _)
PutAll(dict, boards) ==
    IF boards = <<>> THEN dict
    ELSE PutAll(Put(dict, boards[1].id, boards[1]), Tail(boards))

\* the lists of pieces the client makes Plays of, and the pieces it asks
\* about and adds
BranchInputs == UNION {[1..k -> {Piece("red", 1), Piece("red", 2)}] : k \in 1..2}

BranchPieces == {Piece("red", 2), Piece("red", 3), Piece("blue", 1)}

\* play = Play(pieces); play.can_add_piece(piece, allow_partial)
CanAddPiece(pieces, piece, allow_partial) ==
    /\ pc = "idle"
    /\ Len(history) < MaxQueries
    /\ With(Play_can_add_piece(Play(pieces), piece, allow_partial, State.env),
            LAMBDA can :
           /\ Install([State EXCEPT !.env = can.env])
           /\ play' = Some([obj |-> can.self, given |-> pieces, fresh |-> FALSE])
           /\ call' = [op |-> "can_add_piece", play |-> Play(pieces),
                       rval |-> can.rval, heap |-> heap])
    /\ history' = Append(history, [op |-> "can_add_piece", yielded |-> {}])
    /\ UNCHANGED <<rval, calls, hand, draw_pile, shared_plays>>

\* list(board.get_places_for_piece(piece, allow_partial))
GetPlaces(id, piece, allow_partial) ==
    /\ pc = "idle"
    /\ Len(history) < MaxQueries
    /\ id \in DOMAIN heap
    /\ With(get_places_for_piece(heap[id], piece, allow_partial, 1,
                                 [places |-> <<>>, env |-> State.env,
                                  self |-> heap[id]]),
            LAMBDA offered :
           /\ Install([State EXCEPT !.env = offered.env,
                                    !.heap = Put(@, id, offered.self)])
           /\ call' = [op |-> "get_places", board |-> id,
                       places |-> offered.places, heap |-> heap])
    /\ history' = Append(history, [op |-> "get_places", yielded |-> {}])
    /\ UNCHANGED <<play, rval, calls, hand, draw_pile, shared_plays>>

\* list(board.get_neighbors(piece, allow_partial)): the client keeps the
\* Boards it yields
GetNeighbors(id, piece, allow_partial) ==
    /\ pc = "idle"
    /\ Len(history) < MaxQueries
    /\ id \in DOMAIN heap
    /\ With(get_neighbors(heap[id], piece, allow_partial, 1,
                          [boards |-> <<>>, env |-> State.env, raised |-> FALSE,
                           self |-> heap[id], same_plays |-> {}]),
            LAMBDA found :
           /\ Install([State EXCEPT
                         !.env = found.env,
                         !.heap = PutAll(Put(@, id, found.self), found.boards)])
           /\ shared_plays' =
                  Share(shared_plays,
                        {<<<<id, place[2]>>, place>> : place \in found.same_plays})
           /\ call' = [op |-> "get_neighbors", board |-> id,
                       raised |-> found.raised, heap |-> heap]
           /\ history' = Append(history,
                  [op |-> "get_neighbors",
                   yielded |-> {found.boards[k].id : k \in 1..Len(found.boards)}]))
    /\ UNCHANGED <<play, rval, calls, hand, draw_pile>>

NextBranch ==
    \/ \E pieces \in BranchInputs : NewBoard(pieces)
    \/ \E id \in DOMAIN heap : \E pieces \in BranchInputs : AddPlay(id, pieces)
    \/ \E id \in DOMAIN heap : CopyBoard(id)
    \/ \E id \in DOMAIN heap : \E piece \in BranchPieces : \E allow_partial \in BOOLEAN :
          \E i \in 1..Len(heap[id].plays) : AddPieceAt(id, piece, allow_partial, i)
    \/ \E pieces \in BranchInputs : \E piece \in BranchPieces : \E allow_partial \in BOOLEAN :
          CanAddPiece(pieces, piece, allow_partial)
    \/ \E id \in DOMAIN heap : \E piece \in BranchPieces : \E allow_partial \in BOOLEAN :
          GetPlaces(id, piece, allow_partial)
    \/ \E id \in DOMAIN heap : \E piece \in BranchPieces : \E allow_partial \in BOOLEAN :
          GetNeighbors(id, piece, allow_partial)

SpecBranch == Init /\ [][NextBranch]_vars

\* C23: can_add_piece leaves the Play it is asked about as it was;
\* get_places_for_piece and get_neighbors leave every Board the client
\* holds, the one they are called on included, as it was; add_piece and
\* add_play change the Board they are called on and no other, be it the
\* Board that one was copied or branched from, or a sibling.
C23_QueriesAndBranchesLeaveOthersAlone ==
    /\ call.op = "can_add_piece" => play[1].obj = call.play
    /\ call.op \in {"get_places", "get_neighbors"} =>
          \A id \in DOMAIN call.heap : heap[id] = call.heap[id]
    /\ call.op \in {"add_piece", "add_play", "copy"} =>
          \A id \in DOMAIN call.heap \ {call.board} : heap[id] = call.heap[id]
    /\ call.op = "copy" => heap[call.board] = call.heap[call.board]

\* get_neighbors yielded two Boards, and add_piece has changed one of them
C23_Witness ==
    /\ call.op = "add_piece"
    /\ heap[call.board] # call.heap[call.board]
    /\ \E i \in 1..Len(history) :
          /\ call.board \in history[i].yielded
          /\ Cardinality(history[i].yielded) >= 2

\* the SearchNodes an iteration of solve's while loop pushed: it popped the
\* last node of queue and appended these
Pushed == SubSeq(queue', Len(queue), Len(queue'))

\* C24: while a solve call searches, explored only grows; a Board is pushed
\* only if no equal Board was in explored, and is in explored from then on,
\* so no Board equal to one pushed before is pushed again; the Boards pushed
\* by one iteration differ from one another, and so do the Boards on the
\* stack.
C24_NoBoardIsPushedTwice ==
    [][pc = "search" /\ pc' = "search" =>
          /\ explored \subseteq explored'
          /\ \A i \in 1..Len(Pushed) :
                /\ BoardKey(Pushed[i].board) \notin explored
                /\ BoardKey(Pushed[i].board) \in explored'
                /\ \A j \in 1..Len(Pushed) :
                      Board_eq(Pushed[i].board, Pushed[j].board) => i = j
          /\ \A i, j \in 1..Len(queue') :
                Board_eq(queue'[i].board, queue'[j].board) => i = j]_vars

\* in the first search of a process a candidate was found in explored and
\* left out, and the stack holds several Boards
C24_Witness ==
    /\ pc = "search"
    /\ calls = 1
    /\ node_cache_hits > 0
    /\ Len(queue) >= 2

\* C25: every SearchNode an iteration of solve's while loop pushes has the
\* popped node as its parent; its incomplete_depth is 0 exactly when every
\* play of its Board is a run or set of 3 or more tiles, is the parent's
\* plus 1 otherwise, and is less than 3.  The iteration that returns a
\* Board popped a node with no pieces left and incomplete_depth 0, and
\* returns that node's Board.
C25_IncompleteDepthCountsIncompleteSteps ==
    [][pc = "search" /\ queue # <<>> =>
          /\ pc' = "search" =>
                \A i \in 1..Len(Pushed) :
                    /\ Pushed[i].parent = Some(queue[Len(queue)].board.id)
                    /\ Pushed[i].incomplete_depth = 0
                          <=> InvalidPlays(BoardKey(Pushed[i].board)) = 0
                    /\ Pushed[i].incomplete_depth # 0 =>
                          Pushed[i].incomplete_depth
                              = queue[Len(queue)].incomplete_depth + 1
                    /\ Pushed[i].incomplete_depth < 3
          /\ pc' = "idle" /\ outcome' = "board" =>
                /\ queue[Len(queue)].pieces = <<>>
                /\ queue[Len(queue)].incomplete_depth = 0
                /\ returned' = Some(queue[Len(queue)].board.id)]_vars

\* the stack holds a node two incomplete steps deep and a node whose Board
\* has plays and is complete
C25_Witness ==
    /\ pc = "search"
    /\ \E i \in 1..Len(queue) : queue[i].incomplete_depth = 2
    /\ \E i \in 1..Len(queue) :
          /\ queue[i].incomplete_depth = 0
          /\ queue[i].board.plays # <<>>

(***************************************************************************)
(* SpecFeasible: one solve call of a fresh process on a list of tiles from *)
(* both ends of the numbers and from every colour.                         *)
(***************************************************************************)
FeasiblePool ==
    { Piece("red", 1), Piece("red", 2), Piece("red", 3),
      Piece("red", max_number - 1), Piece("red", max_number),
      Piece("blue", 1), Piece("black", 1), Piece("yellow", 1) }

FeasibleInputs == UNION {[1..k -> FeasiblePool] : k \in 0..MaxLen}

NextFeasible ==
    \/ \E pieces \in FeasibleInputs : SolveCold(pieces)
    \/ SearchStep
    \/ SearchExhausted

SpecFeasible == Init /\ [][NextFeasible]_vars

\* every tile has a tile of its colour one number below or above it among
\* the tiles, or its number is there in three colours or more
EveryTileHasCompany(pieces) ==
    \A i \in 1..Len(pieces) :
        \/ \E j \in 1..Len(pieces) :
              /\ pieces[j].color = pieces[i].color
              /\ pieces[j].number \in {pieces[i].number - 1, pieces[i].number + 1}
        \/ Cardinality({pieces[j].color :
                           j \in {k \in 1..Len(pieces) :
                                     pieces[k].number = pieces[i].number}}) >= 3

\* C26: _is_board_fesable(pieces) is True exactly when every tile has a tile
\* of its colour one number below or above, or two other colours of its
\* number, among pieces; a solve call on 3 or more tiles for which it is
\* False raises "No solution found." and explores no node.
C26_FeasibilityCheck ==
    /\ call.op = "solve" =>
          _is_board_fesable(call.pieces) = EveryTileHasCompany(call.pieces)
    /\ \A h \in Finished :
          /\ Len(h.call.pieces) >= 3
          /\ ~EveryTileHasCompany(h.call.pieces)
          => /\ h.outcome = "infeasible"
             /\ h.nodes_explored = h.call.nodes_explored
             /\ h.boards_explored = h.call.boards_explored
             /\ infesable_board_skipped = 1

\* solve was given the two highest reds and a tile that has no company, and
\* raised without a search
C26_Witness ==
    \E h \in Finished :
        /\ Len(h.call.pieces) = 3
        /\ \E i \in 1..3 : h.call.pieces[i].number = max_number
        /\ ~EveryTileHasCompany(h.call.pieces)
        /\ h.outcome = "infeasible"
        /\ nodes_explored = 0

\* C27: the feasibility check is a necessary condition: it is True of every
\* list of tiles that can be split into valid runs and sets, so solve never
\* turns such a list away before the search.
C27_FeasibilityCheckIsNecessary ==
    /\ call.op = "solve" /\ Partitionable(call.pieces)
       => _is_board_fesable(call.pieces)
    /\ \A h \in Finished :
          Partitionable(h.call.pieces) => infesable_board_skipped = 0

\* a run and a set that share a number were given, and the search began
C27_Witness ==
    /\ call.op = "solve"
    /\ Len(call.pieces) = 6
    /\ Partitionable(call.pieces)
    /\ \E i, j \in 1..6 :
          /\ call.pieces[i].color # call.pieces[j].color
          /\ call.pieces[i].number = call.pieces[j].number
    /\ \E i, j \in 1..6 : call.pieces[i].number = call.pieces[j].number + 2
    /\ nodes_explored > 0

\* C28: take_turn stops at its first success: within one take_turn call at
\* most one insert succeeds.
C28_TakeTurnStopsAtItsFirstSuccess ==
    call.op = "take_turn" => Len(call.inserted) <= 1

(***************************************************************************)
(* SpecTurn: a client that takes turns with a Hand that holds more tiles   *)
(* than one turn may play.                                                 *)
(***************************************************************************)
MaxTurnHand == 5

TurnPool == {Piece("red", n) : n \in 1..MaxTurnHand}

\* hands without two equal tiles
TurnInputs ==
    {pieces \in UNION {[1..k -> TurnPool] : k \in 0..MaxTurnHand} :
        \A i, j \in 1..Len(pieces) : i # j => pieces[i] # pieces[j]}

NextTurn ==
    \/ \E pieces \in Lists(1) : calls = 0 /\ NewBoard(pieces)
    \/ \E pieces \in TurnInputs : \E left \in PileInputs : NewHand(pieces, left)
    \/ \E id \in DOMAIN heap : \E max_turn_size \in 1..max_turn_size_default :
          TakeTurn(id, max_turn_size)

SpecTurn == Init /\ [][NextTurn]_vars

(***************************************************************************)
(* SpecTable: two Hands take turns, one after the other, on the Board the  *)
(* last turn returned, drawing from one DrawPile.                          *)
(***************************************************************************)
MaxTurns == 3

MaxSeatHand == 2

SeatInputs == {pieces \in TurnInputs : Len(pieces) <= MaxSeatHand}

\* the client makes the two Hands and the DrawPile
NewHands(first, second, left) ==
    /\ pc = "idle"
    /\ hand = None
    /\ hand' = <<Hand(first), Hand(second)>>
    /\ draw_pile' = Some(DrawPile(left))
    /\ UNCHANGED <<solver_vars, play, rval, calls, call, history, shared_plays>>

\* the client's "board": the Board it made, then the one the last turn
\* returned
Table ==
    IF call.op = "take_turn" /\ ~call.raised THEN call.returned
    ELSE IF call.op = "take_turn" THEN call.board
    ELSE 1

\* whose turn it is
Seat == (Len(history) % 2) + 1

\* board, took_turn = hands[seat].take_turn(board, draw_pile); call remembers
\* what went in and what came out, history the turns taken
TakeTurnAtTable ==
    /\ pc = "idle"
    /\ Len(hand) = 2
    /\ Table \in DOMAIN heap
    /\ Len(history) < MaxTurns
    /\ With(take_turn(State, hand[Seat], Table, draw_pile[1], max_turn_size_default),
            LAMBDA t :
           /\ Install(t.G)
           /\ hand' = [hand EXCEPT ![Seat] = t.hand]
           /\ draw_pile' = Some(t.pile)
           /\ call' = [op |-> "take_turn", seat |-> Seat, board |-> Table,
                       before |-> State,
                       hand |-> hand[Seat].pieces, raised |-> t.raised,
                       took_turn |-> t.took_turn, returned |-> t.board,
                       inserted |-> t.inserted, skipped |-> t.skipped]
           /\ history' = Append(history, [seat |-> Seat, board |-> Table,
                                          took_turn |-> t.took_turn,
                                          inserted |-> t.inserted]))
    /\ UNCHANGED <<play, rval, calls, shared_plays>>

NextTable ==
    \/ \E pieces \in Lists(1) : calls = 0 /\ NewBoard(pieces)
    \/ \E first, second \in SeatInputs : \E left \in PileInputs :
          NewHands(first, second, left)
    \/ TakeTurnAtTable

SpecTable == Init /\ [][NextTable]_vars

\* C29: board_move_cache is never stale: a combination is passed over as
\* cached only if inserting it into the Board given to this call would fail.
C29_BoardMoveCacheIsNeverStale ==
    call.op = "take_turn" =>
        \A k \in 1..Len(call.skipped) :
            insert(call.before, call.board, call.skipped[k]).outcome # "board"

(***************************************************************************)
(* SpecRuns: Spec, with a solve call that is inside its while loop going   *)
(* on to the next iteration, or to the raise after the loop: the loop runs *)
(* in the one thread of the caller and waits for nothing.                  *)
(***************************************************************************)
\* what SearchStep and SearchExhausted do to pc and nodes_explored: the pop
\* counts a node, the return and the raise leave the loop
LoopAdvances ==
    /\ pc = "search"
    /\ pc' \in {"search", "idle"}
    /\ nodes_explored' \in {nodes_explored, nodes_explored + 1}

SpecRuns == Spec /\ WF_<<nodes_explored, pc>>(LoopAdvances)

\* inside the loop, the steps of LoopAdvances that change pc or nodes_explored
\* are the steps of SearchStep and SearchExhausted, so SpecRuns is Spec with
\* weak fairness of these two
LoopAdvancesIsTheSearch ==
    [][pc = "search" =>
          ((SearchStep \/ SearchExhausted)
              <=> /\ LoopAdvances
                  /\ <<nodes_explored, pc>>' # <<nodes_explored, pc>>)]_vars

\* C30: solve always terminates: every node an iteration pushes has one
\* remaining tile fewer than the node it popped, and a call that is inside
\* the while loop eventually returns a Board or raises "No solution found.".
C30_SolveTerminates ==
    /\ [][pc = "search" /\ pc' = "search" =>
             \A i \in 1..Len(Pushed) :
                 Len(Pushed[i].pieces) = Len(queue[Len(queue)].pieces) - 1]_vars
    /\ (pc = "search") ~> (pc = "idle" /\ outcome \in {"board", "infeasible"})

\* a search of several iterations has ended with the stack empty, after one
\* that ended with a Board
C30_Witness ==
    /\ pc = "idle"
    /\ outcome = "infeasible"
    /\ call.op \in {"solve", "insert"}
    /\ nodes_explored > call.nodes_explored + 2
    /\ \E h \in Finished : h.outcome = "board" /\ h.nodes_explored > 3

\* C31: the depth prune of solve never fires: incomplete_depth_skipped is
\* never incremented.
C31_DepthPruneNeverFires == incomplete_depth_skipped = 0

\* the tiles in the plays of the key that are not runs or sets of 3 or more
InvalidPlaySize(key) ==
    IF \E j \in 1..Len(key) : ~IsGroup(key[j])
    THEN Len(key[CHOOSE j \in 1..Len(key) : ~IsGroup(key[j])])
    ELSE 0

\* the Boards an iteration put in explored and did not push: they passed the
\* explored and partial-play checks and were stopped by the depth check
StoppedByDepth ==
    (explored' \ explored) \ {BoardKey(Pushed[i].board) : i \in 1..Len(Pushed)}

\* C31 as amended: every candidate Board that passes the explored and
\* partial-play checks has incomplete_depth 0 if it has no invalid play, and
\* otherwise at least the size of its one invalid play and at most 3:
\* tiles put on valid plays while a play is partial count too.  It is pushed
\* when the depth is below 3, and incomplete_depth_skipped counts the
\* candidates whose depth is 3.
C31_DepthPruneFiresAtTheThirdIncompleteStep ==
    [][pc = "search" /\ queue # <<>> /\ pc' = "search" =>
          /\ \A i \in 1..Len(Pushed) :
                /\ InvalidPlays(BoardKey(Pushed[i].board)) <= 1
                /\ Pushed[i].incomplete_depth
                      >= InvalidPlaySize(BoardKey(Pushed[i].board))
                /\ InvalidPlays(BoardKey(Pushed[i].board)) = 0
                      => Pushed[i].incomplete_depth = 0
                /\ Pushed[i].incomplete_depth <= 2
          /\ \A key \in StoppedByDepth :
                /\ InvalidPlays(key) = 1
                /\ InvalidPlaySize(key) <= 2
                /\ queue[Len(queue)].incomplete_depth + 1 = 3
          /\ incomplete_depth_skipped'
                = incomplete_depth_skipped + Cardinality(StoppedByDepth)]_vars

\* the depth check has stopped a Board, and the stack holds a Board whose
\* partial play has fewer tiles than its incomplete_depth
C31_Witness ==
    /\ pc = "search"
    /\ incomplete_depth_skipped > 0
    /\ \E i \in 1..Len(queue) :
          /\ InvalidPlaySize(BoardKey(queue[i].board)) = 1
          /\ queue[i].incomplete_depth = 2

\* a run or a set of any size: what is_valid(allow_partial=True) asks for
PartialShape(pieces) == RunShape(pieces) \/ SetShape(pieces)

\* the search_space solve builds for a piece at a node: the neighbors, or the
\* Board with the piece in a play of its own if there are none
search_space(node, piece, env) ==
    With(get_neighbors(node.board, piece, TRUE, 1,
             [boards |-> <<>>, env |-> env, raised |-> FALSE,
              self |-> node.board, same_plays |-> {}]),
         LAMBDA found :
         IF found.raised THEN <<>>
         ELSE IF found.boards # <<>> THEN found.boards
         ELSE new_play(node.board, piece, found.env).search_space)

\* the candidate holds the plays of the node's Board and one more
StartsAPlay(node, key) == Len(key) = Len(node.board.plays) + 1

\* C32: every play of every Board solve makes is a run or a set of any
\* size, so a play that is not a run or set of 3 or more has 1 or 2 tiles;
\* and a play of one tile is started only where no play of the node's Board
\* would be a run or set of any size with that tile.
C32_PlaysArePartialAndSingletonsAreLastResort ==
    [][pc = "search" /\ queue # <<>> /\ pc' = "search" =>
          /\ \A key \in (explored' \ explored)
                          \cup {BoardKey(Pushed[i].board) : i \in 1..Len(Pushed)} :
                \A j \in 1..Len(key) :
                    /\ PartialShape(key[j])
                    /\ ~IsGroup(key[j]) => Len(key[j]) \in {1, 2}
          /\ \A j \in 1..Len(queue[Len(queue)].pieces) :
                With(search_space(queue[Len(queue)], queue[Len(queue)].pieces[j],
                                  State.env),
                     LAMBDA boards :
                     \A k \in 1..Len(boards) :
                        /\ \A p \in 1..Len(boards[k].plays) :
                              PartialShape(boards[k].plays[p].pieces)
                        /\ StartsAPlay(queue[Len(queue)], BoardKey(boards[k]))
                           => /\ boards[k].plays[Len(boards[k].plays)].pieces
                                    = <<queue[Len(queue)].pieces[j]>>
                              /\ \A p \in 1..Len(queue[Len(queue)].board.plays) :
                                    ~PartialShape(
                                        Append(queue[Len(queue)].board.plays[p].pieces,
                                               queue[Len(queue)].pieces[j])))
          /\ \A key \in explored' \ explored :
                StartsAPlay(queue[Len(queue)], key)
                => /\ Len(key[Len(key)]) = 1
                   /\ \A p \in 1..Len(queue[Len(queue)].board.plays) :
                         ~PartialShape(Append(queue[Len(queue)].board.plays[p].pieces,
                                              key[Len(key)][1]))]_vars

\* a play of one tile was started beside a complete play that does not take
\* the tile, and the stack holds a Board with a play of two tiles
C32_Witness ==
    /\ pc = "search"
    /\ \E i \in 1..Len(queue) :
          /\ Len(queue[i].board.plays) = 2
          /\ IsGroup(queue[i].board.plays[1].pieces)
          /\ Len(queue[i].board.plays[2].pieces) = 1
    /\ \E i \in 1..Len(queue) :
          \E p \in 1..Len(queue[i].board.plays) :
              Len(queue[i].board.plays[p].pieces) = 2

====
